---- MODULE Spec2Model ----
(***************************************************************************)
(* Task store of the Marathon Agent (src/db_schema.py, DatabaseManager):   *)
(* three SQLite tables (tasks, task_states, task_data) and the operations  *)
(* create_task, update_task_state, get_task and list_tasks, called by      *)
(* several callers over the same database file; the task handlers of the   *)
(* HTTP API (src/workflow_api.py); and the DAG error store                 *)
(* (src/db_models.py, DagDatabase) with its fix proposals and decisions.   *)
(*                                                                         *)
(* An optional value (Python None / SQL NULL against a present value) is a *)
(* sequence of length at most one: NULL is << >>, a value v is <<v>>.      *)
(* A Python dict is a function whose domain is its set of keys.            *)
(***************************************************************************)
EXTENDS Integers, Sequences, FiniteSets, TLC

\* ---------------------------------------------------------------- bounds
MaxRows == 3      \* rows of task_states the model lets the store hold
MaxClock == 1     \* last second of the wall clock the model looks at

\* ------------------------------------------------------------ input sets
Procs == {"p1", "p2"}
TaskIds == {"t1", "t2"}
States == {"initial", "processing", "done"}
InitialStates == {"initial", "done"}
CompletionStates == {"done"}
WorkflowIds == {"w1", "w2"}

NULL == << >>
Some(v) == <<v>>

EmptyDict == [k \in {} |-> ""]
DictSet(d, k, v) == [y \in (DOMAIN d) \cup {k} |-> IF y = k THEN v ELSE d[y]]

\* result: Optional[str]
Results == {NULL, Some(""), Some("ok")}
\* error: Optional[Dict] of update_task_state
Errors == {NULL, Some(EmptyDict), Some(DictSet(EmptyDict, "message", "boom"))}
\* task_data.get('error', {}) of create_task
CreateErrors == {Some(EmptyDict), Some(DictSet(EmptyDict, "message", "boom")),
                 Some(DictSet(DictSet(EmptyDict, "message", "boom"),
                              "has_error", "false")),
                 Some(DictSet(DictSet(EmptyDict, "message", "boom"),
                              "has_error", "true"))}

\* Python truth value of an Optional[str] argument (None and "" are false)
TruthyStr(v) == v # NULL /\ v[1] # ""
\* Python truth value of an Optional[Dict] argument (None and {} are false)
TruthyDict(v) == v # NULL /\ DOMAIN v[1] # {}

\* json.dumps / json.loads of a mapping stored in a TEXT column
JsonDumps(d) == <<"json", d>>
JsonLoads(s) == s[2]
\* a text that is no JSON document, and whether json.loads accepts a text
NotJson == <<"text", "{">>
JsonValid(s) == s[1] = "json"

\* error.get('message')
ErrorMessage(error) ==
    IF "message" \in DOMAIN error[1] THEN Some(error[1]["message"]) ELSE NULL

\* ------------------------------------------------------------------ state
VARIABLES
    tasks,         \* table tasks: task_id -> NULL (no row) or <<row>>
    task_states,   \* table task_states: sequence of rows, rowid = index
    task_data,     \* table task_data: task_id -> NULL (no row) or <<row>>
    clock,         \* the wall clock, in whole seconds
    pc,            \* where each caller is inside its current operation
    local,         \* the local variables of the operation a caller runs
    ret,           \* what the last finished operation gave back
    dag_errors,    \* table dag_errors: sequence of rows, id = index
    fix_proposals, \* table fix_proposals: sequence of rows, id = index
    fix_approvals  \* table fix_approvals: sequence of rows, id = index

\* the tables of the DAG error store
dagvars == <<dag_errors, fix_proposals, fix_approvals>>

vars == <<tasks, task_states, task_data, clock, pc, local, ret,
          dag_errors, fix_proposals, fix_approvals>>

\* The three tables as one value (what a transaction works on)
Db == [tasks |-> tasks, task_states |-> task_states, task_data |-> task_data]

NoLocal == [op |-> "none"]
NoRet == [op |-> "none"]

Init ==
    /\ tasks = [t \in TaskIds |-> NULL]
    /\ task_states = << >>
    /\ task_data = [t \in TaskIds |-> NULL]
    /\ clock = 0
    /\ pc = [p \in Procs |-> "idle"]
    /\ local = [p \in Procs |-> NoLocal]
    /\ ret = NoRet
    /\ dag_errors = << >>
    /\ fix_proposals = << >>
    /\ fix_approvals = << >>

\* callers between the SELECT of update_task_state and its commit
InFlight == {p \in Procs : pc[p] \in {"read", "timed"}}

\* ------------------------------------------------------------ transactions
\* mutant of Rollback: the work done before the failure stays in the tables
RollbackKeepsWork(old, tx) == tx

\* conn.rollback(): the uncommitted work tx is dropped, the tables are as
\* they were when the transaction began
Rollback(old, tx) == old

\* conn.commit()
Commit(old, tx) == tx

\* A transaction that runs the statement sequence stmts (db images after 0,
\* 1, 2, ... statements) and fails at statement failAt (0: no failure)
Outcome(old, stmts, failAt) ==
    IF failAt = 0 THEN Commit(old, stmts[Len(stmts)])
    ELSE Rollback(old, stmts[failAt])

\* ------------------------------------------------------------- create_task
\* metadata.max_retries of the task_data given to create_task
MaxRetries == 1

\* mutant of TaskRow: is_complete is derived from the initial state
TaskRowDerivedComplete(workflow, state, completion, now) ==
    [workflow_id |-> workflow,
     current_state |-> state, completion_state |-> completion,
     created_at |-> now, updated_at |-> now,
     max_retries |-> MaxRetries,
     retry_count |-> 0, is_complete |-> (state = completion),
     has_error |-> FALSE]

TaskRow(workflow, state, completion, now) ==
    [workflow_id |-> workflow,
     current_state |-> state, completion_state |-> completion,
     created_at |-> now, updated_at |-> now,
     max_retries |-> MaxRetries,
     retry_count |-> 0, is_complete |-> FALSE, has_error |-> FALSE]

StateRow(t, state, now, has_error, error_message) ==
    [task_id |-> t, state_name |-> state, entered_at |-> now,
     exited_at |-> NULL, duration_seconds |-> NULL, result |-> NULL,
     has_error |-> has_error, error_message |-> error_message]

\* data.get('prompt', ''), data.get('context', '') and
\* workflow.get('next_states', []) of the task_data given to create_task
Prompt == "run extraction"
Context == ""
NextStates == <<"processing">>

DataRow(results, error) ==
    [prompt |-> Prompt, context |-> Context,
     parameters |-> Some(JsonDumps(EmptyDict)),
     results |-> Some(JsonDumps(results)),
     next_states |-> Some(JsonDumps(NextStates)),
     error_details |->
        IF TruthyDict(error) /\ "has_error" \in DOMAIN error[1]
                             /\ error[1]["has_error"] = "true"
        THEN Some(JsonDumps(error[1])) ELSE NULL]

\* images of the tables after 0..3 of the inserts of create_task
CreateStmts(db, t, workflow, state, completion, error, now) ==
    LET d1 == [db EXCEPT !.tasks[t] =
                  Some(TaskRow(workflow, state, completion, now))]
        d2 == [d1 EXCEPT !.task_states =
                  Append(@, StateRow(t, state, now, FALSE, NULL))]
        d3 == [d2 EXCEPT !.task_data[t] = Some(DataRow(EmptyDict, error))]
    IN <<db, d1, d2, d3>>

\* mutant of CreateCall: no PRIMARY KEY on task_id, a create on an
\* existing task_id adds a second row to tasks and to task_data
CreateCallSecondRow(t, workflow, state, completion, error, failAt) ==
    LET added == [Db EXCEPT
                    !.tasks[t] = Append(@, TaskRow(workflow, state,
                                                   completion, clock)),
                    !.task_states = Append(@, StateRow(t, state, clock,
                                                       FALSE, NULL)),
                    !.task_data[t] = Append(@, DataRow(EmptyDict, error))]
    IN [db |-> IF failAt = 0 THEN added ELSE Db,
        ret |-> IF failAt = 0
                THEN [op |-> "create", outcome |-> "returned", value |-> t,
                      state |-> state, completion_state |-> completion,
                      error |-> error]
                ELSE [op |-> "create", outcome |-> "raised",
                      exception |-> "OperationalError"]]

\* mutant of CreateCall: no PRIMARY KEY on task_id, the inserts of a
\* create on an existing task_id go through
CreateCallNoPrimaryKey(t, workflow, state, completion, error, failAt) ==
    LET stmts == CreateStmts(Db, t, workflow, state, completion, error, clock)
    IN [db |-> Outcome(Db, stmts, failAt),
        ret |-> IF failAt = 0
                THEN [op |-> "create", outcome |-> "returned", value |-> t,
                      state |-> state, completion_state |-> completion,
                      error |-> error]
                ELSE [op |-> "create", outcome |-> "raised",
                      exception |-> "OperationalError"]]

\* one call of create_task: the tables and the outcome it leaves, failAt
\* being the statement at which the storage faults (0: none)
CreateCall(t, workflow, state, completion, error, failAt) ==
    LET now == clock
        dup == tasks[t] # NULL      \* PRIMARY KEY violation at insert 1
        stmts == CreateStmts(Db, t, workflow, state, completion, error, now)
        fail == IF dup THEN 1 ELSE failAt
    IN [db |-> Outcome(Db, stmts, fail),
        ret |-> IF fail = 0
                THEN [op |-> "create", outcome |-> "returned", value |-> t,
                      state |-> state, completion_state |-> completion,
                      error |-> error]
                ELSE [op |-> "create", outcome |-> "raised",
                      exception |-> IF dup THEN "IntegrityError"
                                    ELSE "OperationalError"]]

\* W: the workflow ids the callers use
CreateTask(t, W, failAt) ==
    /\ \E p \in Procs : pc[p] = "idle"
    /\ Len(task_states) + Cardinality(InFlight) < MaxRows
    /\ \E o \in {CreateCall(t, w, s, c, e, failAt) :
                    w \in W, s \in InitialStates, c \in CompletionStates,
                    e \in CreateErrors} :
          /\ tasks' = o.db.tasks
          /\ task_states' = o.db.task_states
          /\ task_data' = o.db.task_data
          /\ ret' = o.ret
    /\ UNCHANGED <<clock, pc, local>>
    /\ UNCHANGED dagvars

\* ------------------------------------------------------- update_task_state
\* mutant of SealMatches: the condition "exited_at IS NULL" is left out
SealMatchesAnyExit(rows, t, cur) ==
    {i \in DOMAIN rows : rows[i].task_id = t /\ rows[i].state_name = cur}

\* mutant of SealMatches: the condition on exited_at is inverted
SealMatchesInverted(rows, t, cur) ==
    {i \in DOMAIN rows : /\ rows[i].task_id = t
                         /\ rows[i].state_name = cur
                         /\ rows[i].exited_at # NULL}

\* mutant of SealMatches: the condition on task_id is left out
SealMatchesAnyTask(rows, t, cur) ==
    {i \in DOMAIN rows : /\ rows[i].state_name = cur
                         /\ rows[i].exited_at = NULL}

\* rows the sealing UPDATE matches:
\* WHERE task_id = ? AND state_name = ? AND exited_at IS NULL
SealMatches(rows, t, cur) ==
    {i \in DOMAIN rows : /\ rows[i].task_id = t
                         /\ rows[i].state_name = cur
                         /\ rows[i].exited_at = NULL}

\* mutant of Seal: the UPDATE also rewrites the events already sealed
SealAgain(rows, t, cur, now, result) ==
    [i \in DOMAIN rows |->
        IF rows[i].task_id = t /\ rows[i].state_name = cur
        THEN [rows[i] EXCEPT !.exited_at = Some(now),
                             !.duration_seconds = Some(now - rows[i].entered_at),
                             !.result = result]
        ELSE rows[i]]

\* mutant of Seal: the two operands of the duration are swapped
SealDurationBackwards(rows, t, cur, now, result) ==
    [i \in DOMAIN rows |->
        IF i \in SealMatches(rows, t, cur)
        THEN [rows[i] EXCEPT !.exited_at = Some(now),
                             !.duration_seconds = Some(rows[i].entered_at - now),
                             !.result = result]
        ELSE rows[i]]

\* mutant of Seal: the sealing UPDATE is left out
SealSkipped(rows, t, cur, now, result) == rows

\* UPDATE task_states SET exited_at, duration_seconds, result WHERE ...
Seal(rows, t, cur, now, result) ==
    [i \in DOMAIN rows |->
        IF i \in SealMatches(rows, t, cur)
        THEN [rows[i] EXCEPT !.exited_at = Some(now),
                             !.duration_seconds = Some(now - rows[i].entered_at),
                             !.result = result]
        ELSE rows[i]]

\* mutant of UpdateTaskRow: is_complete, once set, stays set
UpdateTaskRowStickyComplete(row, new_state, now, completion_state, error) ==
    [row EXCEPT !.current_state = new_state,
                !.updated_at = now,
                !.is_complete = (@ \/ new_state = completion_state),
                !.has_error = TruthyDict(error)]

\* mutant of UpdateTaskRow: has_error, once set, stays set
UpdateTaskRowStickyError(row, new_state, now, completion_state, error) ==
    [row EXCEPT !.current_state = new_state,
                !.updated_at = now,
                !.is_complete = (new_state = completion_state),
                !.has_error = (@ \/ TruthyDict(error))]

\* mutant of UpdateTaskRow: the UPDATE also sets created_at
UpdateTaskRowTouchesCreatedAt(row, new_state, now, completion_state, error) ==
    [row EXCEPT !.current_state = new_state,
                !.created_at = now,
                !.updated_at = now,
                !.is_complete = (new_state = completion_state),
                !.has_error = TruthyDict(error)]

\* UPDATE tasks SET current_state, updated_at, is_complete, has_error
UpdateTaskRow(row, new_state, now, completion_state, error) ==
    [row EXCEPT !.current_state = new_state,
                !.updated_at = now,
                !.is_complete = (new_state = completion_state),
                !.has_error = TruthyDict(error)]

\* mutant of MergeResult: the result goes under the state being entered
MergeResultUnderNewState(results_json, L) ==
    LET results == IF results_json # NULL THEN JsonLoads(results_json[1])
                   ELSE EmptyDict
    IN IF TruthyStr(L.result)
       THEN DictSet(results, L.new_state, L.result[1])
       ELSE results

\* mutant of MergeResult: the test is `result is not None`, so the empty
\* string is recorded too
MergeResultNotNone(results_json, L) ==
    LET results == IF results_json # NULL THEN JsonLoads(results_json[1])
                   ELSE EmptyDict
    IN IF L.result # NULL
       THEN DictSet(results, L.current_state, L.result[1])
       ELSE results

\* mutant of MergeResult: the mapping is built anew instead of merged
MergeResultFresh(results_json, L) ==
    IF TruthyStr(L.result)
    THEN DictSet(EmptyDict, L.current_state, L.result[1])
    ELSE EmptyDict

\* results = json.loads(results_json) if results_json else {};
\* if result: results[current_state] = result
MergeResult(results_json, L) ==
    LET results == IF results_json # NULL THEN JsonLoads(results_json[1])
                   ELSE EmptyDict
    IN IF TruthyStr(L.result)
       THEN DictSet(results, L.current_state, L.result[1])
       ELSE results

\* mutant of ErrorDetails: the error is merged into the stored mapping
ErrorDetailsMerged(old, error) ==
    IF TruthyDict(error)
    THEN LET before == IF old # NULL THEN JsonLoads(old[1]) ELSE EmptyDict
         IN Some(JsonDumps([k \in (DOMAIN before) \cup (DOMAIN error[1]) |->
                              IF k \in DOMAIN error[1] THEN error[1][k]
                              ELSE before[k]]))
    ELSE old

\* if error: UPDATE task_data SET error_details = json.dumps(error);
\* the column after the statement, old being its value before
ErrorDetails(old, error) ==
    IF TruthyDict(error) THEN Some(JsonDumps(error[1])) ELSE old

\* mutant of InsertState: a transition to the state the task is in adds
\* no State Event
InsertStateOnChange(rows, L) ==
    IF L.new_state = L.current_state THEN rows
    ELSE Append(rows, StateRow(L.task_id, L.new_state, L.now,
                               TruthyDict(L.error),
                               IF TruthyDict(L.error)
                               THEN ErrorMessage(L.error) ELSE NULL))

\* INSERT INTO task_states (task_id, state_name, entered_at, has_error,
\* error_message) VALUES (task_id, new_state, now, 1 if error else 0,
\* error.get('message') if error else None)
InsertState(rows, L) ==
    Append(rows, StateRow(L.task_id, L.new_state, L.now,
                          TruthyDict(L.error),
                          IF TruthyDict(L.error)
                          THEN ErrorMessage(L.error) ELSE NULL))

\* images of the tables after 0..6 statements of the write transaction of
\* update_task_state, L being the locals of the call
TransitionStmts(db, L) ==
    LET t == L.task_id
        d1 == [db EXCEPT !.task_states =
                  Seal(@, t, L.current_state, L.now, L.result)]
        d2 == [d1 EXCEPT !.task_states = InsertState(@, L)]
        d3 == IF d2.tasks[t] = NULL THEN d2
              ELSE [d2 EXCEPT !.tasks[t] =
                       Some(UpdateTaskRow(@[1], L.new_state, L.now,
                                          L.completion_state, L.error))]
        d4 == IF d3.task_data[t] # NULL
              THEN [d3 EXCEPT !.task_data[t] =
                       Some([@[1] EXCEPT !.error_details =
                                ErrorDetails(@, L.error)])]
              ELSE d3
        d5 == d4
        d6 == [d5 EXCEPT !.task_data[t] =
                  Some([@[1] EXCEPT !.results =
                          Some(JsonDumps(MergeResult(
                                            d5.task_data[t][1].results, L)))])]
    IN <<db, d1, d2, d3, d4, d5, d6>>

\* mutant of TaskNotFound: the unknown task is given a State Event
TaskNotFoundInserts(t) ==
    /\ ret' = [op |-> "transition", task_id |-> t, outcome |-> "returned",
               value |-> FALSE]
    /\ task_states' = Append(task_states, StateRow(t, "initial", clock,
                                                  FALSE, NULL))
    /\ UNCHANGED <<tasks, task_data>>

\* if not row: log, conn.close(), return False
TaskNotFound(t) ==
    /\ ret' = [op |-> "transition", task_id |-> t, outcome |-> "returned",
               value |-> FALSE]
    /\ UNCHANGED <<tasks, task_states, task_data>>

\* mutant of TransitionRead: a task that is complete takes no transition
TransitionReadRejectsComplete(p, t, fault) ==
    /\ pc[p] = "idle"
    /\ Len(task_states) + Cardinality(InFlight) < MaxRows
    /\ IF fault
       THEN /\ ret' = [op |-> "transition", outcome |-> "raised",
                       found |-> FALSE]
            /\ UNCHANGED <<tasks, task_states, task_data, pc, local>>
       ELSE IF tasks[t] = NULL \/ tasks[t][1].is_complete
       THEN /\ TaskNotFound(t)
            /\ UNCHANGED <<pc, local>>
       ELSE /\ pc' = [pc EXCEPT ![p] = "read"]
            /\ local' = [local EXCEPT ![p] =
                 [op |-> "transition", task_id |-> t,
                  current_state |-> tasks[t][1].current_state,
                  completion_state |-> tasks[t][1].completion_state,
                  seen |-> SealMatches(task_states, t,
                                       tasks[t][1].current_state),
                  now |-> 0]]
            /\ UNCHANGED <<tasks, task_states, task_data, ret>>
    /\ UNCHANGED clock
    /\ UNCHANGED dagvars

\* SELECT current_state, completion_state FROM tasks WHERE task_id = ?
\* (run in autocommit, before the write transaction begins)
TransitionRead(p, t, fault) ==
    /\ pc[p] = "idle"
    /\ Len(task_states) + Cardinality(InFlight) < MaxRows
    /\ IF fault
       THEN /\ ret' = [op |-> "transition", outcome |-> "raised",
                       found |-> FALSE]
            /\ UNCHANGED <<tasks, task_states, task_data, pc, local>>
       ELSE IF tasks[t] = NULL
       THEN /\ TaskNotFound(t)
            /\ UNCHANGED <<pc, local>>
       ELSE /\ pc' = [pc EXCEPT ![p] = "read"]
            /\ local' = [local EXCEPT ![p] =
                 [op |-> "transition", task_id |-> t,
                  current_state |-> tasks[t][1].current_state,
                  completion_state |-> tasks[t][1].completion_state,
                  seen |-> SealMatches(task_states, t,
                                       tasks[t][1].current_state),
                  now |-> 0]]
            /\ UNCHANGED <<tasks, task_states, task_data, ret>>
    /\ UNCHANGED clock
    /\ UNCHANGED dagvars

\* now = time.strftime("%Y-%m-%d %H:%M:%S")
TransitionNow(p) ==
    /\ pc[p] = "read"
    /\ pc' = [pc EXCEPT ![p] = "timed"]
    /\ local' = [local EXCEPT ![p].now = clock]
    /\ UNCHANGED <<tasks, task_states, task_data, clock, ret>>
    /\ UNCHANGED dagvars

\* the write transaction of one call: seal, insert, update tasks, update
\* error_details, read and write results, commit; on an exception rollback
\* and re-raise. L holds the locals and the arguments of the call.
TransitionCall(L, failAt) ==
    LET results_json == task_data[L.task_id][1].results
        \* json.loads(results_json) raises at statement 5
        fail == IF failAt = 0 /\ results_json # NULL
                              /\ ~JsonValid(results_json[1])
                THEN 5 ELSE failAt
    IN
    [db |-> Outcome(Db, TransitionStmts(Db, L), fail),
     ret |-> IF fail = 0
             THEN [op |-> "transition", task_id |-> L.task_id,
                   outcome |-> "returned", value |-> TRUE,
                   current_state |-> L.current_state,
                   new_state |-> L.new_state, result |-> L.result,
                   error |-> L.error, seen |-> L.seen,
                   sealed |-> SealMatches(task_states, L.task_id,
                                          L.current_state)]
             ELSE [op |-> "transition", outcome |-> "raised",
                   found |-> TRUE]]

\* The arguments new_state, result and error of the call are first used in
\* the write transaction, so they are drawn here.
\* R, E: the results and the errors the callers pass.
TransitionWriteOf(p, failAt, R, E) ==
    /\ pc[p] = "timed"
    /\ \E o \in {TransitionCall(local[p] @@ [new_state |-> s, result |-> r,
                                             error |-> e], failAt) :
                    s \in States, r \in R, e \in E} :
          /\ tasks' = o.db.tasks
          /\ task_states' = o.db.task_states
          /\ task_data' = o.db.task_data
          /\ ret' = o.ret
    /\ pc' = [pc EXCEPT ![p] = "idle"]
    /\ local' = [local EXCEPT ![p] = NoLocal]
    /\ UNCHANGED clock
    /\ UNCHANGED dagvars

TransitionWrite(p, failAt) == TransitionWriteOf(p, failAt, Results, Errors)

\* ----------------------------------------------------------------- get_task
\* rowids of the task's rows of task_states
RowsOf(rows, t) == {i \in DOMAIN rows : rows[i].task_id = t}

\* SELECT ... FROM task_states WHERE task_id = ? ORDER BY entered_at:
\* the results SQL allows, every arrangement of the task's rows in which
\* entered_at never decreases (rows with equal entered_at come in any order)
OrderedByEnteredAt(rows, t) ==
    LET ids == RowsOf(rows, t)
        n == Cardinality(ids)
    IN {o \in [1..n -> ids] :
           /\ \A i, j \in 1..n : i # j => o[i] # o[j]
           /\ \A i \in 1..n : \A j \in 1..n :
                 i < j => rows[o[i]].entered_at <= rows[o[j]].entered_at}

\* one row of state_history: the columns the SELECT names
HistoryRow(row) ==
    [state_name |-> row.state_name, entered_at |-> row.entered_at,
     exited_at |-> row.exited_at, duration_seconds |-> row.duration_seconds,
     result |-> row.result, has_error |-> row.has_error,
     error_message |-> row.error_message]

\* the columns of task_data that get_task parses with json.loads
JsonColumns == {"parameters", "results", "next_states", "error_details"}

\* json.loads raises on one of the JSON columns of the row
Undecodable(drow) ==
    \E c \in JsonColumns : drow[c] # NULL /\ ~JsonValid(drow[c][1])

\* task = dict(task_row) with the JSON columns parsed
JoinedTask(t, trow, drow) ==
    [found |-> TRUE, task_id |-> t, workflow_id |-> trow.workflow_id,
     prompt |-> drow.prompt, context |-> drow.context,
     parameters |-> IF drow.parameters # NULL
                    THEN JsonLoads(drow.parameters[1]) ELSE EmptyDict,
     next_states |-> IF drow.next_states # NULL
                     THEN JsonLoads(drow.next_states[1]) ELSE << >>,
     current_state |-> trow.current_state,
     completion_state |-> trow.completion_state,
     created_at |-> trow.created_at, updated_at |-> trow.updated_at,
     retry_count |-> trow.retry_count,
     is_complete |-> trow.is_complete, has_error |-> trow.has_error,
     results |-> IF drow.results # NULL THEN JsonLoads(drow.results[1])
                 ELSE EmptyDict,
     error_details |-> IF drow.error_details # NULL
                       THEN JsonLoads(drow.error_details[1]) ELSE EmptyDict]

\* the empty dict get_task returns for "no such task" and on an exception
EmptyTask == [found |-> FALSE]

\* SELECT t.*, td.* FROM tasks t JOIN task_data td ... WHERE t.task_id = ?
GetJoin(p, t, fault) ==
    /\ pc[p] = "idle"
    /\ IF \/ fault \/ tasks[t] = NULL \/ task_data[t] = NULL
          \/ Undecodable(task_data[t][1])
       THEN /\ ret' = [op |-> "get", task_id |-> t, outcome |-> "returned",
                       value |-> EmptyTask]
            /\ UNCHANGED <<pc, local>>
       ELSE /\ pc' = [pc EXCEPT ![p] = "joined"]
            /\ local' = [local EXCEPT ![p] =
                  [op |-> "get", task_id |-> t,
                   task |-> JoinedTask(t, tasks[t][1], task_data[t][1])]]
            /\ UNCHANGED ret
    /\ UNCHANGED <<tasks, task_states, task_data, clock>>
    /\ UNCHANGED dagvars

\* the second SELECT of get_task, and its return
GetHistory(p, fault) ==
    /\ pc[p] = "joined"
    /\ \E o \in OrderedByEnteredAt(task_states, local[p].task_id) :
          ret' = [op |-> "get", task_id |-> local[p].task_id,
                  outcome |-> "returned",
                  value |-> IF fault THEN EmptyTask
                            ELSE local[p].task @@
                                 [state_history |->
                                    [i \in DOMAIN o |->
                                        HistoryRow(task_states[o[i]])]]]
    /\ pc' = [pc EXCEPT ![p] = "idle"]
    /\ local' = [local EXCEPT ![p] = NoLocal]
    /\ UNCHANGED <<tasks, task_states, task_data, clock>>
    /\ UNCHANGED dagvars

\* what one call of get_task returns when no writer runs between its two
\* SELECTs: {} when a SELECT or json.loads raises or the JOIN finds no row,
\* else the joined task with its history
GetCall(t, fault) ==
    IF \/ fault \/ tasks[t] = NULL \/ task_data[t] = NULL
       \/ Undecodable(task_data[t][1])
    THEN {EmptyTask}
    ELSE {JoinedTask(t, tasks[t][1], task_data[t][1]) @@
          [state_history |-> [i \in DOMAIN o |-> HistoryRow(task_states[o[i]])]] :
             o \in OrderedByEnteredAt(task_states, t)}

\* ------------------------------------------------------------ workflow_api
\* what get_sqs_publisher() hands to the handler: None or a publisher
SqsPublishers == {NULL, Some("publisher")}
\* the JSON body of POST /workflow/tasks/{task_id}/states/{state}
Bodies == {NULL, Some(DictSet(EmptyDict, "note", "manual"))}

\* mutant of NotFoundResponse: the handler answers 200 with an empty body
NotFoundAnswered200(op, t) ==
    [op |-> op, task_id |-> t, status |-> 200, published |-> NULL]

\* raise HTTPException(status_code=404, detail="Task ... not found")
NotFoundResponse(op, t) ==
    [op |-> op, task_id |-> t, status |-> 404, published |-> NULL]

\* GET /workflow/tasks/{task_id}
HttpGetTask(p, t, fault) ==
    /\ pc[p] = "idle"
    /\ \E task \in GetCall(t, fault) :
          ret' = IF ~task.found
                 THEN NotFoundResponse("http_get", t)
                 ELSE [op |-> "http_get", task_id |-> t, status |-> 200,
                       published |-> NULL, body |-> task]
    /\ UNCHANGED <<tasks, task_states, task_data, clock, pc, local>>
    /\ UNCHANGED dagvars

\* sqs_publisher.update_task_state(task_id, workflow_id, current_state,
\* new_state, result): the message it puts on the queue
StateUpdateMessage(task, state, body) ==
    [task_id |-> task.task_id, workflow_id |-> task.workflow_id,
     current_state |-> task.current_state, new_state |-> state,
     result |-> body]

\* the answer of the POST handler once it holds a publisher: 404 when
\* get_task gave {}, else the message is published and the answer is
\* "updated", or 500 when the publisher reports sqs_result.success False
PostResponse(t, state, body, task, sent) ==
    IF ~task.found THEN NotFoundResponse("http_post", t)
    ELSE IF sent
    THEN [op |-> "http_post", task_id |-> t, status |-> 200,
          published |-> Some(StateUpdateMessage(task, state, body))]
    ELSE [op |-> "http_post", task_id |-> t, status |-> 500,
          published |-> NULL]

\* mutant of HttpUpdateTaskState: the handler applies the transition to the
\* Task row itself before it answers
HttpUpdateTaskStateWrites(p, t, publisher, fault, sent) ==
    /\ pc[p] = "idle"
    /\ \E state \in States, body \in Bodies, task \in GetCall(t, fault) :
          /\ ret' = PostResponse(t, state, body, task, TRUE)
          /\ tasks' = IF task.found
                       THEN [tasks EXCEPT ![t] =
                                <<[@[1] EXCEPT !.current_state = state]>>]
                       ELSE tasks
    /\ UNCHANGED <<task_states, task_data, clock, pc, local>>
    /\ UNCHANGED dagvars

\* POST /workflow/tasks/{task_id}/states/{state}
HttpUpdateTaskState(p, t, publisher, fault, sent) ==
    /\ pc[p] = "idle"
    /\ \E r \in IF publisher = NULL
                THEN {[op |-> "http_post", task_id |-> t, status |-> 500,
                       published |-> NULL]}
                ELSE {PostResponse(t, state, body, task, sent) :
                         state \in States, body \in Bodies,
                         task \in GetCall(t, fault)} :
          ret' = r
    /\ UNCHANGED <<tasks, task_states, task_data, clock, pc, local>>
    /\ UNCHANGED dagvars

\* --------------------------------------------------------------- list_tasks
\* the arguments of list_tasks: workflow_id and state are Optional[str],
\* limit is an int
ListWorkflowIds == {NULL, Some(""), Some("w1")}
ListStates == {NULL, Some("initial")}
ListLimits == {0 - 1, 0, 1}

\* mutant of Selected: the conditions are joined with OR
SelectedByAny(rows, workflow_id, state) ==
    {t \in DOMAIN rows :
        /\ rows[t] # NULL
        /\ \/ ~TruthyStr(workflow_id) /\ ~TruthyStr(state)
           \/ TruthyStr(workflow_id) /\ rows[t][1].workflow_id = workflow_id[1]
           \/ TruthyStr(state) /\ rows[t][1].current_state = state[1]}

\* the rows the WHERE clause keeps: a condition is added for workflow_id
\* and for state only if the argument is truthy; conditions joined by AND
Selected(rows, workflow_id, state) ==
    {t \in DOMAIN rows :
        /\ rows[t] # NULL
        /\ TruthyStr(workflow_id) => rows[t][1].workflow_id = workflow_id[1]
        /\ TruthyStr(state) => rows[t][1].current_state = state[1]}

\* ORDER BY updated_at DESC: every arrangement of the selected rows in
\* which updated_at never increases (rows with equal updated_at come in
\* any order)
OrderedByUpdatedAtDesc(rows, sel) ==
    LET n == Cardinality(sel)
    IN {o \in [1..n -> sel] :
           /\ \A i, j \in 1..n : i # j => o[i] # o[j]
           /\ \A i \in 1..n : \A j \in 1..n :
                 i < j => rows[o[i]][1].updated_at >= rows[o[j]][1].updated_at}

\* LIMIT ?: the first limit rows; SQLite puts no upper bound on the rows
\* when the limit is negative
Limit(o, limit) ==
    IF limit < 0 \/ limit >= Len(o) THEN o ELSE SubSeq(o, 1, limit)

\* dict(row) of the columns the SELECT of list_tasks names
Summary(t, row) ==
    [task_id |-> t, workflow_id |-> row.workflow_id,
     current_state |-> row.current_state, created_at |-> row.created_at,
     updated_at |-> row.updated_at, is_complete |-> row.is_complete,
     has_error |-> row.has_error]

\* what one call of list_tasks returns: the rows of the SELECT as dicts;
\* on an exception it logs and returns []
ListCall(workflow_id, state, limit, fault) ==
    IF fault
    THEN {[op |-> "list", outcome |-> "returned", logged |-> TRUE,
           value |-> << >>]}
    ELSE {[op |-> "list", outcome |-> "returned",
           workflow_id |-> workflow_id, state |-> state, limit |-> limit,
           logged |-> FALSE,
           value |-> [i \in DOMAIN Limit(o, limit) |->
                         Summary(o[i], tasks[o[i]][1])]] :
             o \in OrderedByUpdatedAtDesc(
                      tasks, Selected(tasks, workflow_id, state))}

\* The arguments of the call are drawn here.
ListTasks(p, fault) ==
    /\ pc[p] = "idle"
    /\ \E r \in UNION {ListCall(w, s, l, fault) :
                          w \in ListWorkflowIds, s \in ListStates,
                          l \in ListLimits} :
          ret' = r
    /\ UNCHANGED <<tasks, task_states, task_data, clock, pc, local>>
    /\ UNCHANGED dagvars

\* The JSON columns of task_data are plain TEXT: a writer other than the
\* DatabaseManager leaves a text that is no JSON in column c of task t
CorruptPayload(t, c) ==
    /\ tasks[t] # NULL /\ task_data[t] # NULL
    /\ task_data' = [task_data EXCEPT ![t] =
                        Some([@[1] EXCEPT ![c] = Some(NotJson)])]
    /\ ret' = [op |-> "corrupt", task_id |-> t, column |-> c]
    /\ UNCHANGED <<tasks, task_states, clock, pc, local>>
    /\ UNCHANGED dagvars

Tick ==
    /\ clock < MaxClock
    /\ clock' = clock + 1
    /\ UNCHANGED <<tasks, task_states, task_data, pc, local, ret>>
    /\ UNCHANGED dagvars

\* ---------------------------------------------------------------- db_models
\* ids the callers pass: those of the rows and one that no row has
DagRowIds == 1..(MaxRows + 1)
DagIds == {"dag1"}
Reviewers == {"alice"}

\* rows in the three tables together, and the room left for one more
DagRows == Len(dag_errors) + Len(fix_proposals) + Len(fix_approvals)
DagRoom == DagRows < MaxRows + 3

\* The three tables of the DAG error store as one value
DagDb == [dag_errors |-> dag_errors, fix_proposals |-> fix_proposals,
          fix_approvals |-> fix_approvals]

\* add_dag_error: INSERT INTO dag_errors with state 'needs_processing';
\* returns cursor.lastrowid, or -1 after a rollback
AddDagErrorCall(dag_id, failAt) ==
    LET row == [dag_id |-> dag_id, state |-> "needs_processing",
                detected_at |-> clock]
        d1 == [DagDb EXCEPT !.dag_errors = Append(@, row)]
    IN [db |-> Outcome(DagDb, <<DagDb, d1>>, failAt),
        ret |-> [op |-> "add_dag_error",
                 value |-> IF failAt = 0 THEN Len(dag_errors) + 1 ELSE 0 - 1]]

AddDagError(failAt) ==
    /\ Len(dag_errors) < MaxRows /\ DagRoom
    /\ \E o \in {AddDagErrorCall(d, failAt) : d \in DagIds} :
          /\ dag_errors' = o.db.dag_errors
          /\ fix_proposals' = o.db.fix_proposals
          /\ fix_approvals' = o.db.fix_approvals
          /\ ret' = o.ret
    /\ UNCHANGED <<tasks, task_states, task_data, clock, pc, local>>

\* add_fix_proposal: SELECT id FROM dag_errors; not found: return -1;
\* INSERT INTO fix_proposals with state 'awaiting_approval', UPDATE
\* dag_errors SET state = 'awaiting_approval'; commit and return
\* cursor.lastrowid; on an exception rollback and return -1
AddFixProposalCall(error_id, failAt) ==
    IF error_id \notin DOMAIN dag_errors
    THEN [db |-> DagDb,
          ret |-> [op |-> "add_fix_proposal", error_id |-> error_id,
                   value |-> 0 - 1]]
    ELSE
    LET row == [error_id |-> error_id, state |-> "awaiting_approval",
                created_at |-> clock]
        d1 == [DagDb EXCEPT !.fix_proposals = Append(@, row)]
        d2 == [d1 EXCEPT !.dag_errors[error_id].state = "awaiting_approval"]
    IN [db |-> Outcome(DagDb, <<DagDb, d1, d2>>, failAt),
        ret |-> [op |-> "add_fix_proposal", error_id |-> error_id,
                 value |-> IF failAt = 0 THEN Len(fix_proposals) + 1
                           ELSE 0 - 1]]

AddFixProposal(failAt) ==
    /\ Len(fix_proposals) < MaxRows /\ DagRoom
    /\ \E o \in {AddFixProposalCall(e, failAt) : e \in DagRowIds} :
          /\ dag_errors' = o.db.dag_errors
          /\ fix_proposals' = o.db.fix_proposals
          /\ fix_approvals' = o.db.fix_approvals
          /\ ret' = o.ret
    /\ UNCHANGED <<tasks, task_states, task_data, clock, pc, local>>

\* mutant of DecisionCall: a proposal that has been decided takes no other
\* decision
DecisionOnceOnly(op, proposal_id, reviewer, approved, pstate, estate, failAt) ==
    IF \/ proposal_id \notin DOMAIN fix_proposals
       \/ fix_proposals[proposal_id].state # "awaiting_approval"
    THEN [db |-> DagDb,
          ret |-> [op |-> op, proposal_id |-> proposal_id, value |-> FALSE]]
    ELSE
    LET error_id == fix_proposals[proposal_id].error_id
        row == [proposal_id |-> proposal_id, reviewer |-> reviewer,
                comments |-> "", approved |-> approved,
                approval_time |-> clock]
        d1 == [DagDb EXCEPT !.fix_approvals = Append(@, row)]
        d2 == [d1 EXCEPT !.fix_proposals[proposal_id].state = pstate]
        d3 == [d2 EXCEPT !.dag_errors[error_id].state = estate]
    IN [db |-> Outcome(DagDb, <<DagDb, d1, d2, d3>>, failAt),
        ret |-> [op |-> op, proposal_id |-> proposal_id,
                 value |-> (failAt = 0)]]

\* mutant of DecisionCall: the state of the error is left as it was
DecisionKeepsErrorState(op, proposal_id, reviewer, approved, pstate, estate, failAt) ==
    IF proposal_id \notin DOMAIN fix_proposals
    THEN [db |-> DagDb,
          ret |-> [op |-> op, proposal_id |-> proposal_id, value |-> FALSE]]
    ELSE
    LET row == [proposal_id |-> proposal_id, reviewer |-> reviewer,
                comments |-> "", approved |-> approved,
                approval_time |-> clock]
        d1 == [DagDb EXCEPT !.fix_approvals = Append(@, row)]
        d2 == [d1 EXCEPT !.fix_proposals[proposal_id].state = pstate]
    IN [db |-> Outcome(DagDb, <<DagDb, d1, d2, d2>>, failAt),
        ret |-> [op |-> op, proposal_id |-> proposal_id,
                 value |-> (failAt = 0)]]

\* the body approve_fix and reject_fix share: SELECT error_id FROM
\* fix_proposals; not found: return False; INSERT INTO fix_approvals,
\* UPDATE fix_proposals SET state, UPDATE dag_errors SET state; commit and
\* return True; on an exception rollback and return False
DecisionCall(op, proposal_id, reviewer, approved, pstate, estate, failAt) ==
    IF proposal_id \notin DOMAIN fix_proposals
    THEN [db |-> DagDb,
          ret |-> [op |-> op, proposal_id |-> proposal_id, value |-> FALSE]]
    ELSE
    LET error_id == fix_proposals[proposal_id].error_id
        row == [proposal_id |-> proposal_id, reviewer |-> reviewer,
                comments |-> "", approved |-> approved,
                approval_time |-> clock]
        d1 == [DagDb EXCEPT !.fix_approvals = Append(@, row)]
        d2 == [d1 EXCEPT !.fix_proposals[proposal_id].state = pstate]
        d3 == [d2 EXCEPT !.dag_errors[error_id].state = estate]
    IN [db |-> Outcome(DagDb, <<DagDb, d1, d2, d3>>, failAt),
        ret |-> [op |-> op, proposal_id |-> proposal_id,
                 value |-> (failAt = 0)]]

ApproveFixCall(proposal_id, reviewer, failAt) ==
    DecisionCall("approve_fix", proposal_id, reviewer, TRUE,
                 "approved_for_fix", "approved_for_fix", failAt)

RejectFixCall(proposal_id, reviewer, failAt) ==
    DecisionCall("reject_fix", proposal_id, reviewer, FALSE,
                 "rejected", "needs_processing", failAt)

ApproveFix(failAt) ==
    /\ Len(fix_approvals) < MaxRows /\ DagRoom
    /\ \E o \in {ApproveFixCall(i, r, failAt) :
                    i \in DagRowIds, r \in Reviewers} :
          /\ dag_errors' = o.db.dag_errors
          /\ fix_proposals' = o.db.fix_proposals
          /\ fix_approvals' = o.db.fix_approvals
          /\ ret' = o.ret
    /\ UNCHANGED <<tasks, task_states, task_data, clock, pc, local>>

RejectFix(failAt) ==
    /\ Len(fix_approvals) < MaxRows /\ DagRoom
    /\ \E o \in {RejectFixCall(i, r, failAt) :
                    i \in DagRowIds, r \in Reviewers} :
          /\ dag_errors' = o.db.dag_errors
          /\ fix_proposals' = o.db.fix_proposals
          /\ fix_approvals' = o.db.fix_approvals
          /\ ret' = o.ret
    /\ UNCHANGED <<tasks, task_states, task_data, clock, pc, local>>

\* ---------------------------------------------------------- specifications
\* a caller may start a transition on t only when no other caller is between
\* the SELECT and the commit of a transition on t
Serialized(t) == \A q \in InFlight : local[q].task_id # t

\* create_task by callers that all work for one workflow (the writers
\* never read workflow_id)
OneWorkflow == {"w1"}
Create(T) ==
    \E t \in T, f \in 0..4 : CreateTask(t, OneWorkflow, f)

\* Spec: the writers of the store (create_task and update_task_state) called
\* by all callers with no coordination between them, within one second of
\* the wall clock (no statement of the writers branches on a timestamp; the
\* clock runs in SpecGet)
Next ==
    \/ Create(TaskIds)
    \/ \E p \in Procs, t \in TaskIds, fault \in BOOLEAN :
          TransitionRead(p, t, fault)
    \/ \E p \in Procs : TransitionNow(p)
    \/ \E p \in Procs, f \in 0..7 : TransitionWrite(p, f)

Spec == Init /\ [][Next]_vars

\* SpecSerial: the same writers, the transitions of one task one at a time
NextSerial ==
    \/ Create(TaskIds)
    \/ \E p \in Procs, t \in TaskIds, fault \in BOOLEAN :
          Serialized(t) /\ TransitionRead(p, t, fault)
    \/ \E p \in Procs : TransitionNow(p)
    \/ \E p \in Procs, f \in 0..7 : TransitionWrite(p, f)

SpecSerial == Init /\ [][NextSerial]_vars

\* SpecGet: one caller that creates, transitions and reads back, while the
\* wall clock runs
Reader == "p1"
ReadTasks == {"t1"}

NextGet ==
    \/ Tick
    \/ Create(ReadTasks)
    \/ \E t \in TaskIds, fault \in BOOLEAN : TransitionRead(Reader, t, fault)
    \/ TransitionNow(Reader)
    \/ \E f \in 0..7 : TransitionWrite(Reader, f)
    \/ \E t \in TaskIds, fault \in BOOLEAN : GetJoin(Reader, t, fault)
    \/ \E fault \in BOOLEAN : GetHistory(Reader, fault)

SpecGet == Init /\ [][NextGet]_vars

\* SpecTimed: one caller that creates a task and applies transitions one
\* after the other, while the wall clock runs
NextTimed ==
    \/ Tick
    \/ Create(ReadTasks)
    \/ \E t \in TaskIds, fault \in BOOLEAN : TransitionRead(Reader, t, fault)
    \/ TransitionNow(Reader)
    \/ \E f \in 0..7 : TransitionWrite(Reader, f)

SpecTimed == Init /\ [][NextTimed]_vars

\* SpecCorrupt: one caller that creates a task, applies transitions and
\* reads it back, over a database file whose payload texts can be damaged;
\* the SELECTs of get_task meet no storage fault
NextCorrupt ==
    \/ Create(ReadTasks)
    \/ \E t \in TaskIds, fault \in BOOLEAN : TransitionRead(Reader, t, fault)
    \/ TransitionNow(Reader)
    \/ \E f \in 0..7 : TransitionWrite(Reader, f)
    \/ \E t \in ReadTasks, c \in JsonColumns : CorruptPayload(t, c)
    \/ \E t \in TaskIds : GetJoin(Reader, t, FALSE)
    \/ GetHistory(Reader, FALSE)

SpecCorrupt == Init /\ [][NextCorrupt]_vars

\* SpecList: one caller that creates tasks of several workflows, applies
\* transitions and lists the tasks, while the wall clock runs; the
\* transitions carry no result and no error (list_tasks reads neither the
\* Payload nor the State Events)
NextList ==
    \/ Tick
    \/ \E t \in TaskIds, f \in 0..4 : CreateTask(t, WorkflowIds, f)
    \/ \E t \in TaskIds, fault \in BOOLEAN : TransitionRead(Reader, t, fault)
    \/ TransitionNow(Reader)
    \/ \E f \in 0..7 : TransitionWriteOf(Reader, f, {NULL}, {NULL})
    \/ \E fault \in BOOLEAN : ListTasks(Reader, fault)

SpecList == Init /\ [][NextList]_vars

\* SpecRead: one caller that creates a task, applies transitions, reads the
\* task back and lists the tasks, while the wall clock runs
NextRead ==
    \/ Tick
    \/ Create(ReadTasks)
    \/ \E t \in TaskIds, fault \in BOOLEAN : TransitionRead(Reader, t, fault)
    \/ TransitionNow(Reader)
    \/ \E f \in 0..7 : TransitionWrite(Reader, f)
    \/ \E t \in TaskIds, fault \in BOOLEAN : GetJoin(Reader, t, fault)
    \/ \E fault \in BOOLEAN : GetHistory(Reader, fault)
    \/ \E fault \in BOOLEAN : ListTasks(Reader, fault)

SpecRead == Init /\ [][NextRead]_vars

\* SpecHttp: one caller that creates a task and applies transitions
\* (without result or error, which the handlers do not look at), and the
\* two task handlers of the HTTP API
NextHttp ==
    \/ Create(ReadTasks)
    \/ \E t \in TaskIds, fault \in BOOLEAN : TransitionRead(Reader, t, fault)
    \/ TransitionNow(Reader)
    \/ \E f \in 0..7 : TransitionWriteOf(Reader, f, {NULL}, {NULL})
    \/ \E t \in TaskIds, fault \in BOOLEAN : HttpGetTask(Reader, t, fault)
    \/ \E t \in TaskIds, publisher \in SqsPublishers, fault \in BOOLEAN,
          sent \in BOOLEAN :
          HttpUpdateTaskState(Reader, t, publisher, fault, sent)

SpecHttp == Init /\ [][NextHttp]_vars

\* SpecDag: the DAG error store: errors are recorded, fixes proposed,
\* approved and rejected
NextDag ==
    \/ \E f \in 0..1 : AddDagError(f)
    \/ \E f \in 0..2 : AddFixProposal(f)
    \/ \E f \in 0..3 : ApproveFix(f)
    \/ \E f \in 0..3 : RejectFix(f)

SpecDag == Init /\ [][NextDag]_vars

\* ------------------------------------------------------------ observations
\* the task's open State Events (exited_at IS NULL)
OpenEvents(rows, t) == {i \in RowsOf(rows, t) : rows[i].exited_at = NULL}

\* the Payload's results mapping of an existing task
ResultsOf(data, t) == JsonLoads(data[t][1].results[1])

\* this step is caller p finishing the write transaction of a transition
WriteStep(p) == pc[p] = "timed" /\ pc'[p] = "idle"
\* ... with a commit and return True
Committed(p) == WriteStep(p) /\ ret'.outcome = "returned"
\* ... with an exception
Failed(p) == WriteStep(p) /\ ret'.outcome = "raised"

\* a State Event that caller p saw open when it read current_state has been
\* sealed since: another transition of the task committed in between
StaleRead(p) == \E i \in local[p].seen : task_states[i].exited_at # NULL

\* ------------------------------------------------------------------ claims

\* C1: with the transitions of a task applied one at a time, every existing
\* task has exactly one State Event with exited_at = null, and the
\* state_name of that event is the Task's current_state.
C1_SingleOpenEvent ==
    \A t \in TaskIds :
        tasks[t] # NULL =>
            /\ Cardinality(OpenEvents(task_states, t)) = 1
            /\ \A i \in OpenEvents(task_states, t) :
                  task_states[i].state_name = tasks[t][1].current_state

\* C1 witness: a task that went through create and two successful
\* transitions, the last of which changed its state.
C1_AfterTwoTransitions ==
    /\ ret.op = "transition" /\ ret.outcome = "returned" /\ ret.value
    /\ ret.new_state # ret.current_state
    /\ Cardinality(RowsOf(task_states, ret.task_id)) = 3

\* C2 as stated: a transition that commits after another transition sealed
\* the open State Event both had read seals that same event again.
C2_BothSealSameEvent ==
    [][\A p \in Procs :
          Committed(p) /\ StaleRead(p) =>
              ret'.sealed \cap local[p].seen # {}]_vars

\* C2 amended: of two concurrent transitions that read the same
\* current_state only the first to commit seals the open State Event; the
\* sealing UPDATE of the second matches none of the events the first sealed
\* and leaves their rows as the first wrote them.
C2_SecondSealLeavesSealedEvent ==
    [][\A p \in Procs :
          Committed(p) /\ StaleRead(p) =>
              \A i \in local[p].seen :
                  task_states[i].exited_at # NULL =>
                      /\ i \notin ret'.sealed
                      /\ task_states'[i] = task_states[i]]_vars

\* C2 witness: a transition has committed whose sealing UPDATE matched none
\* of the events that were open when it read current_state.
C2_RacedCommit ==
    /\ ret.op = "transition" /\ ret.outcome = "returned" /\ ret.value
    /\ ret.seen # {}
    /\ ret.sealed \cap ret.seen = {}

\* C3: the number of open State Events of an existing task grows only in
\* the commit of a transition that was not serialized (another transition
\* of the task committed between its read of current_state and its writes);
\* such a commit leaves the task with more than one open event.
C3_ExtraOpenEventOnlyByRace ==
    [][\A t \in TaskIds :
          (/\ tasks[t] # NULL
           /\ Cardinality(OpenEvents(task_states', t))
                 > Cardinality(OpenEvents(task_states, t)))
          => \E p \in Procs : /\ Committed(p)
                              /\ local[p].task_id = t
                              /\ StaleRead(p)]_vars

\* C3 witness: a task with more than one State Event with exited_at = null.
C3_TwoOpenEvents ==
    \E t \in TaskIds :
        tasks[t] # NULL /\ Cardinality(OpenEvents(task_states, t)) > 1

\* C4: a transition that fails after the task was found leaves the Task
\* rows, the State Events and the Payloads exactly as before the call.
C4_FailedTransitionChangesNothing ==
    [][\A p \in Procs :
          Failed(p) => UNCHANGED <<tasks, task_states, task_data>>]_vars

\* C4 witness: a transition raised after the task was found, on a task
\* that has State Events.
C4_TransitionFailedMidway ==
    /\ ret.op = "transition" /\ ret.outcome = "raised" /\ ret.found
    /\ Len(task_states) > 0

\* C5: no operation lets a fault out to its caller: every operation ends
\* by returning a value.
C5_NoFaultPropagates == ret.op # "none" => ret.outcome = "returned"

\* C6: a transition on a task_id with no Task row never succeeds (it
\* returns False unless its SELECT itself faults) and changes no row.
C6_UnknownTaskNoChange ==
    [][\A p \in Procs, t \in TaskIds :
          (/\ pc[p] = "idle" /\ tasks[t] = NULL
           /\ ret' # ret /\ ret'.op = "transition"
           /\ ret'.outcome = "returned" /\ ret'.task_id = t)
          => /\ ret'.value = FALSE
             /\ UNCHANGED <<tasks, task_states, task_data>>]_vars

\* C6 witness: a transition on an absent task_id returned False while the
\* store holds another task.
C6_ReturnedNotFound ==
    /\ ret.op = "transition" /\ ret.outcome = "returned" /\ ~ret.value
    /\ tasks[ret.task_id] = NULL
    /\ Len(task_states) > 0

\* C7: right after a successful transition the Task's is_complete is true
\* iff the call's new_state is the Task's completion_state.
C7_IsCompleteIffCompletionState ==
    [][\A p \in Procs :
          Committed(p) =>
              LET row == tasks'[local[p].task_id][1]
              IN row.is_complete = (ret'.new_state = row.completion_state)]_vars

\* C7 witness: a successful transition out of the completion state to
\* another state, after which is_complete is false.
C7_LeftCompletionState ==
    /\ ret.op = "transition" /\ ret.outcome = "returned" /\ ret.value
    /\ ret.current_state = tasks[ret.task_id][1].completion_state
    /\ ret.new_state # ret.current_state
    /\ tasks[ret.task_id][1].current_state = ret.new_state
    /\ ~tasks[ret.task_id][1].is_complete

\* the entry of key k of a mapping, NULL when the key is absent
Entry(d, k) == IF k \in DOMAIN d THEN Some(d[k]) ELSE NULL

\* C8 as stated: a successful transition that supplies a result r (any
\* value other than None) leaves results[S] = r, S the state it read.
C8_SuppliedResultRecorded ==
    [][\A p \in Procs :
          Committed(p) /\ ret'.result # NULL =>
              Entry(ResultsOf(task_data', local[p].task_id),
                    local[p].current_state) = ret'.result]_vars

\* C8 amended: a successful transition that supplies a non-empty result r
\* leaves results[S] = r, S the current_state the call read, and leaves the
\* entry of new_state as it was unless new_state = S.
C8_NonEmptyResultUnderExitedState ==
    [][\A p \in Procs :
          Committed(p) /\ TruthyStr(ret'.result) =>
              LET t == local[p].task_id
                  S == local[p].current_state
              IN /\ Entry(ResultsOf(task_data', t), S) = ret'.result
                 /\ ret'.new_state # S =>
                       Entry(ResultsOf(task_data', t), ret'.new_state)
                          = Entry(ResultsOf(task_data, t), ret'.new_state)]_vars

\* C8 witness: a successful transition with a non-empty result to a
\* different state; the result sits under the state left, none under the
\* state entered.
C8_ResultUnderExitedState ==
    /\ ret.op = "transition" /\ ret.outcome = "returned" /\ ret.value
    /\ TruthyStr(ret.result)
    /\ ret.new_state # ret.current_state
    /\ Entry(ResultsOf(task_data, ret.task_id), ret.current_state)
          = ret.result
    /\ ret.new_state \notin DOMAIN ResultsOf(task_data, ret.task_id)

\* C9: the results mapping of a task never loses a key, and a transition
\* out of state S leaves the value of every key other than S unchanged.
C9_ResultsAppendOnly ==
    [][\A t \in TaskIds :
          tasks[t] # NULL =>
              /\ DOMAIN ResultsOf(task_data, t)
                    \subseteq DOMAIN ResultsOf(task_data', t)
              /\ \A k \in DOMAIN ResultsOf(task_data, t) :
                    (\A p \in Procs :
                        ~(WriteStep(p) /\ local[p].task_id = t
                                       /\ local[p].current_state = k))
                    => ResultsOf(task_data', t)[k]
                          = ResultsOf(task_data, t)[k]]_vars

\* C9 witness: a results mapping with two keys, the second one just added
\* by a successful transition.
C9_TwoKeys ==
    /\ ret.op = "transition" /\ ret.outcome = "returned" /\ ret.value
    /\ TruthyStr(ret.result)
    /\ Cardinality(DOMAIN ResultsOf(task_data, ret.task_id)) = 2

\* the state names of the task's State Events in the order of the calls
\* that inserted them (rowid order)
CallOrder(rows, t) ==
    LET mine == SelectSeq(rows, LAMBDA r : r.task_id = t)
    IN [i \in DOMAIN mine |-> mine[i].state_name]

\* C10: the state_history get returns lists the state names in the order
\* of the calls: the initial state, then each new_state in call order.
C10_HistoryInCallOrder ==
    [][\A p \in Procs :
          (pc[p] = "joined" /\ pc'[p] = "idle" /\ ret'.value.found) =>
              [i \in DOMAIN ret'.value.state_history |->
                  ret'.value.state_history[i].state_name]
                 = CallOrder(task_states, local[p].task_id)]_vars

\* the columns of a State Event that are fixed once it is sealed
SealedFields(row) ==
    <<row.exited_at, row.duration_seconds, row.result, row.state_name,
      row.entered_at>>

\* C11: a State Event is sealed exactly once: a successful transition sets
\* exited_at, duration_seconds and result on every event of the task that
\* is open under the state it leaves, an open event gets its exit fields
\* in no other step, and once exited_at is non-null no step changes the
\* event's exited_at, duration_seconds, result, state_name or entered_at.
C11_SealedOnce ==
    [][/\ \A i \in DOMAIN task_states :
             /\ i \in DOMAIN task_states'
             /\ task_states[i].exited_at # NULL =>
                   SealedFields(task_states'[i]) = SealedFields(task_states[i])
             /\ (task_states[i].exited_at = NULL
                    /\ task_states'[i].exited_at # NULL) =>
                   \E p \in Procs :
                      /\ Committed(p)
                      /\ task_states[i].task_id = local[p].task_id
                      /\ task_states[i].state_name = local[p].current_state
       /\ \A p \in Procs :
             Committed(p) =>
                \A i \in OpenEvents(task_states, local[p].task_id) :
                   task_states[i].state_name = local[p].current_state =>
                      /\ task_states'[i].exited_at = Some(local[p].now)
                      /\ task_states'[i].duration_seconds # NULL
                      /\ task_states'[i].result = ret'.result]_vars

\* C11 witness: a successful transition has left a state that the task had
\* already left once; the event sealed by the earlier transition is there,
\* not among the events this transition sealed.
C11_SealedEventOutlivedTransition ==
    /\ ret.op = "transition" /\ ret.outcome = "returned" /\ ret.value
    /\ ret.sealed # {}
    /\ \E i \in RowsOf(task_states, ret.task_id) \ ret.sealed :
          /\ task_states[i].exited_at # NULL
          /\ task_states[i].state_name = ret.current_state

\* the State Event of the same task inserted next after event i (with the
\* transitions of a task one at a time, the event inserted by the
\* transition that sealed i)
NextEvent(rows, i) ==
    {j \in RowsOf(rows, rows[i].task_id) :
        /\ j > i
        /\ \A k \in RowsOf(rows, rows[i].task_id) : k > i => j <= k}

LastCommitted ==
    ret.op = "transition" /\ ret.outcome = "returned" /\ ret.value

\* C13: after a successful transition the Task's has_error tells whether
\* the call carried an error (a non-empty error object), and is the
\* has_error of the State Event the call inserted, whatever the earlier
\* transitions carried.
C13_HasErrorOfLastTransition ==
    LastCommitted =>
        LET inserted == task_states[Len(task_states)]
        IN /\ inserted.task_id = ret.task_id
           /\ inserted.state_name = ret.new_state
           /\ inserted.exited_at = NULL
           /\ tasks[ret.task_id][1].has_error = TruthyDict(ret.error)
           /\ inserted.has_error = tasks[ret.task_id][1].has_error

\* C13 witness: a successful transition without error on a task that an
\* earlier transition had entered a state with an error; has_error is false.
C13_ErrorCleared ==
    /\ LastCommitted
    /\ ~TruthyDict(ret.error)
    /\ ~tasks[ret.task_id][1].has_error
    /\ \E i \in RowsOf(task_states, ret.task_id) : task_states[i].has_error

\* C14: a successful transition that carries an error (a non-empty error
\* object) leaves error_details equal to that whole object, with nothing
\* of what was stored before; a successful transition without an error
\* leaves error_details as it was. So error_details is the error of the
\* most recent transition that carried one.
C14_ErrorDetailsLastErrorWins ==
    [][\A p \in Procs :
          Committed(p) =>
              LET t == local[p].task_id
              IN task_data'[t][1].error_details
                    = IF TruthyDict(ret'.error)
                      THEN Some(JsonDumps(ret'.error[1]))
                      ELSE task_data[t][1].error_details]_vars

\* C14 witness: after a successful transition without error the Task's
\* has_error is false while error_details still holds the error object of
\* an earlier transition.
C14_StaleErrorDetails ==
    /\ LastCommitted
    /\ ~TruthyDict(ret.error)
    /\ ~tasks[ret.task_id][1].has_error
    /\ task_data[ret.task_id][1].error_details # NULL
    /\ \E e \in Errors :
          /\ TruthyDict(e)
          /\ task_data[ret.task_id][1].error_details = Some(JsonDumps(e[1]))

\* error.get('has_error') of the error object given to create_task
InitialHasError(error) ==
    /\ "has_error" \in DOMAIN error[1]
    /\ error[1]["has_error"] = "true"

\* C15: right after a successful create the Task has current_state =
\* initial_state, is_complete = false and has_error = false, the task has
\* exactly one State Event, with state_name = initial_state and exited_at,
\* duration_seconds and result null, and error_details holds the initial
\* error if that error has has_error true and is null otherwise.
C15_CreatedTask ==
    (ret.op = "create" /\ ret.outcome = "returned") =>
        LET t == ret.value
            events == RowsOf(task_states, t)
        IN /\ tasks[t] # NULL /\ task_data[t] # NULL
           /\ tasks[t][1].current_state = ret.state
           /\ ~tasks[t][1].is_complete
           /\ ~tasks[t][1].has_error
           /\ Cardinality(events) = 1
           /\ \A i \in events :
                 /\ task_states[i].state_name = ret.state
                 /\ task_states[i].exited_at = NULL
                 /\ task_states[i].duration_seconds = NULL
                 /\ task_states[i].result = NULL
           /\ task_data[t][1].error_details
                 = IF InitialHasError(ret.error)
                   THEN Some(JsonDumps(ret.error[1])) ELSE NULL

\* C15 witness: a task just created in its completion state with an
\* initial error that has has_error true.
C15_CreatedInCompletionStateWithError ==
    /\ ret.op = "create" /\ ret.outcome = "returned"
    /\ ret.state = ret.completion_state
    /\ InitialHasError(ret.error)
    /\ task_data[ret.value][1].error_details # NULL

\* the State Events of task t, in rowid order
EventsOf(rows, t) == SelectSeq(rows, LAMBDA r : r.task_id = t)

\* C16: create is all-or-nothing: a create that fails at any of its
\* inserts raises and leaves every table as it was; a create succeeds only
\* on a task_id that has no Task row; and no create changes the Task, the
\* State Events or the Payload of a task that exists.
C16_CreateAllOrNothing ==
    [][ret'.op = "create" =>
          /\ ret'.outcome = "raised" =>
                UNCHANGED <<tasks, task_states, task_data>>
          /\ (ret'.outcome = "returned" /\ tasks' # tasks) =>
                tasks[ret'.value] = NULL
          /\ \A t \in TaskIds :
                tasks[t] # NULL =>
                   /\ tasks'[t] = tasks[t]
                   /\ task_data'[t] = task_data[t]
                   /\ EventsOf(task_states', t) = EventsOf(task_states, t)]_vars

\* C16 witness: a create on a task_id that exists was refused with a
\* PRIMARY KEY violation, after that task had made a transition.
C16_DuplicateRefused ==
    /\ ret.op = "create" /\ ret.outcome = "raised"
    /\ ret.exception = "IntegrityError"
    /\ \E t \in TaskIds :
          tasks[t] # NULL /\ Cardinality(RowsOf(task_states, t)) > 1

\* C17: with the transitions of a task one at a time, a successful
\* transition whose new_state is the Task's current_state seals the open
\* State Event, inserts a new open State Event with the same state_name,
\* makes the task's events one more, and leaves exactly one open event.
C17_SelfLoop ==
    [][\A p \in Procs :
          (Committed(p) /\ ret'.new_state = local[p].current_state) =>
              LET t == local[p].task_id
                  n == Len(task_states')
              IN /\ tasks[t][1].current_state = local[p].current_state
                 /\ tasks'[t][1].current_state = local[p].current_state
                 /\ OpenEvents(task_states, t) # {}
                 /\ \A i \in OpenEvents(task_states, t) :
                       /\ task_states'[i].exited_at # NULL
                       /\ task_states'[i].state_name = ret'.new_state
                 /\ n = Len(task_states) + 1
                 /\ Cardinality(RowsOf(task_states', t))
                       = Cardinality(RowsOf(task_states, t)) + 1
                 /\ task_states'[n].task_id = t
                 /\ task_states'[n].state_name = local[p].current_state
                 /\ OpenEvents(task_states', t) = {n}]_vars

\* C17 witness: a transition to the state the task was in has returned
\* True; the task has a sealed and an open event of that state.
C17_SelfLoopDone ==
    /\ LastCommitted
    /\ ret.new_state = ret.current_state
    /\ \E i, j \in RowsOf(task_states, ret.task_id) :
          /\ task_states[i].state_name = ret.new_state
          /\ task_states[j].state_name = ret.new_state
          /\ task_states[i].exited_at # NULL
          /\ task_states[j].exited_at = NULL

\* C18: get tells "no such task" from every existing task: it returns the
\* not-found result exactly when the task_id has no Task row, and for an
\* existing task the Task fields joined with the Payload and one history
\* entry per State Event of the task.
C18_NotFoundDistinguishable ==
    ret.op = "get" =>
        /\ ret.value.found <=> tasks[ret.task_id] # NULL
        /\ ret.value.found =>
              /\ ret.value.current_state = tasks[ret.task_id][1].current_state
              /\ ret.value.results = ResultsOf(task_data, ret.task_id)
              /\ Len(ret.value.state_history)
                    = Cardinality(RowsOf(task_states, ret.task_id))

\* C19: a get on an existing task of which a stored JSON column does not
\* decode returns that task's detail: the result is not the not-found
\* result.
C19_UndecodableFieldReadAsEmpty ==
    [][\A t \in TaskIds :
          (/\ tasks[t] # NULL /\ task_data[t] # NULL
           /\ Undecodable(task_data[t][1])
           /\ pc[Reader] = "idle" /\ pc'[Reader] = "idle"
           /\ ret'.op = "get" /\ ret'.task_id = t
           /\ UNCHANGED <<tasks, task_states, task_data>>)
          => ret'.value.found]_vars

\* the last finished operation is a list_tasks that met no exception
Listed == ret.op = "list" /\ ~ret.logged

\* the task_ids of a list of summaries
Listing(value) == {value[i].task_id : i \in DOMAIN value}

\* the list is what list_tasks may return for the tasks in sel and the
\* limit: no task twice, only tasks of sel, as they are stored, in
\* descending updated_at order, none left out that has a greater
\* updated_at than a task listed, and n entries
ListOf(value, sel, n) ==
    /\ Len(value) = n
    /\ Listing(value) \subseteq sel
    /\ Cardinality(Listing(value)) = Len(value)
    /\ \A i \in DOMAIN value :
          value[i] = Summary(value[i].task_id, tasks[value[i].task_id][1])
    /\ \A i, j \in DOMAIN value :
          i < j => value[i].updated_at >= value[j].updated_at
    /\ \A t \in sel \ Listing(value) :
          \A i \in DOMAIN value :
             tasks[t][1].updated_at <= value[i].updated_at

Min(a, b) == IF a <= b THEN a ELSE b

Immutables(trow, drow) ==
    [completion_state |-> trow.completion_state,
     created_at |-> trow.created_at,
     prompt |-> drow.prompt, context |-> drow.context,
     parameters |-> drow.parameters, next_states |-> drow.next_states]

\* C21: no step of a transition, a get or a list changes the immutable
\* fields of an existing task: its Task row and its Payload row stay, under
\* the same task_id, with the completion_state, created_at, prompt,
\* context, parameters and next_states that create wrote.
C21_ImmutablesKept ==
    [][\A t \in TaskIds :
          (tasks[t] # NULL /\ task_data[t] # NULL) =>
              /\ tasks'[t] # NULL /\ task_data'[t] # NULL
              /\ Immutables(tasks'[t][1], task_data'[t][1])
                    = Immutables(tasks[t][1], task_data[t][1])]_vars

\* C21 witness: a task created in one second has made a successful
\* transition in a later second and has then been read back by get.
C21_ReadBackAfterLaterTransition ==
    /\ ret.op = "get" /\ ret.value.found
    /\ ret.value.updated_at > ret.value.created_at
    /\ ret.value.created_at = tasks[ret.task_id][1].created_at
    /\ ret.value.prompt = Prompt

\* this step is the return of a get of task t that found the task
GetReturned(t) ==
    /\ pc[Reader] = "joined" /\ pc'[Reader] = "idle"
    /\ ret'.op = "get" /\ ret'.task_id = t /\ ret'.value.found

\* the operation before the get was a successful transition of task t
\* that was the n-th transition since the create of t
NthTransition(t, n) ==
    /\ LastCommitted /\ ret.task_id = t
    /\ Cardinality(RowsOf(task_states, t)) = n + 1

\* C22: the end-to-end scenario. A get right after create of t1 with
\* initial_state "initial" and completion_state "done" shows current_state
\* "initial", one history entry and is_complete false; a get right after
\* the first transition, to "processing" with result "ok", shows two
\* history entries, the first sealed with result "ok", and results =
\* {"initial": "ok"}; a get right after the second transition, to "done",
\* shows is_complete true, current_state "done" and three history entries.
C22_EndToEnd ==
    [][GetReturned("t1") =>
          LET shown == ret'.value
              history == shown.state_history
          IN /\ (/\ ret.op = "create" /\ ret.outcome = "returned"
                 /\ ret.value = "t1" /\ ret.state = "initial"
                 /\ ret.completion_state = "done")
                => /\ shown.current_state = "initial"
                   /\ Len(history) = 1
                   /\ ~shown.is_complete
             /\ (/\ NthTransition("t1", 1)
                 /\ ret.current_state = "initial"
                 /\ ret.new_state = "processing"
                 /\ ret.result = Some("ok") /\ ret.error = NULL)
                => /\ Len(history) = 2
                   /\ history[1].exited_at # NULL
                   /\ history[1].result = Some("ok")
                   /\ shown.results = DictSet(EmptyDict, "initial", "ok")
             /\ (/\ NthTransition("t1", 2)
                 /\ ret.new_state = "done")
                => /\ shown.is_complete
                   /\ shown.current_state = "done"
                   /\ Len(history) = 3]_vars

\* C23: in every state reached through create and transition calls,
\* successful or failed, a task_id has at most one Task row and at most
\* one Payload row, it has the one exactly when it has the other, and the
\* task_id of every State Event is that of an existing Task row.
C23_OneTaskOnePayload ==
    /\ \A t \in TaskIds :
          /\ Len(tasks[t]) <= 1
          /\ Len(task_data[t]) = Len(tasks[t])
    /\ \A i \in DOMAIN task_states :
          /\ task_states[i].task_id \in TaskIds
          /\ Len(tasks[task_states[i].task_id]) = 1

\* C23 witness: a create on an existing task_id has just been refused
\* while another task_id has no rows at all.
C23_AfterRefusedCreate ==
    /\ ret.op = "create" /\ ret.outcome = "raised"
    /\ ret.exception = "IntegrityError"
    /\ \E t \in TaskIds : Len(tasks[t]) = 1 /\ RowsOf(task_states, t) # {}
    /\ \E t \in TaskIds : Len(tasks[t]) = 0 /\ RowsOf(task_states, t) = {}

\* the last finished operation is the answer of an HTTP handler
Answered == ret.op \in {"http_get", "http_post"}

C28_PostLeavesStore ==
    [][ret'.op = "http_post" =>
          /\ UNCHANGED <<tasks, task_states, task_data>>
          /\ ret'.published # NULL =>
                /\ ret'.status = 200
                /\ ret'.published[1].current_state
                      = tasks'[ret'.task_id][1].current_state]_vars

\* C28 witness: the handler has answered "updated" for a requested state
\* other than the one the Task row still holds.
C28_UpdatedButStoredStateKept ==
    /\ ret.op = "http_post" /\ ret.status = 200 /\ ret.published # NULL
    /\ ret.published[1].new_state # tasks[ret.task_id][1].current_state

\* C25: the write transaction of a transition on task A, committed or
\* rolled back, leaves every other task as it was: the Task row, the
\* Payload and all State Events (the open one included) of every task B
\* other than A are unchanged.
C25_OtherTasksUntouched ==
    [][\A p \in Procs :
          WriteStep(p) =>
             \A B \in TaskIds \ {local[p].task_id} :
                /\ tasks'[B] = tasks[B]
                /\ task_data'[B] = task_data[B]
                /\ EventsOf(task_states', B) = EventsOf(task_states, B)]_vars

\* C25 witness: a transition on one task has committed while another task
\* has its open State Event in the very state the transition left.
C25_OtherTaskInSameState ==
    /\ LastCommitted
    /\ \E B \in TaskIds \ {ret.task_id} :
          /\ tasks[B] # NULL
          /\ \E i \in OpenEvents(task_states, B) :
                task_states[i].state_name = ret.current_state

\* C26: a successful transition whose result is None or the empty string
\* leaves the results mapping as it was; one whose error is None or an
\* empty mapping sets has_error false and leaves error_details as it was;
\* and every State Event the call seals gets the supplied result, empty or
\* not, so a sealed event's result can differ from results[state].
C26_EmptyResultAndError ==
    [][\A p \in Procs :
          Committed(p) =>
             LET t == local[p].task_id
             IN /\ ~TruthyStr(ret'.result) =>
                      ResultsOf(task_data', t) = ResultsOf(task_data, t)
                /\ ~TruthyDict(ret'.error) =>
                      /\ ~tasks'[t][1].has_error
                      /\ task_data'[t][1].error_details
                            = task_data[t][1].error_details
                /\ \A i \in ret'.sealed :
                      /\ task_states'[i].exited_at # NULL
                      /\ task_states'[i].result = ret'.result]_vars

\* C26 witness: a transition with the empty string as result and an empty
\* error object has committed; the event it sealed holds the empty string
\* while the results mapping has no entry for the state left.
C26_SealedEmptyResultNotRecorded ==
    /\ LastCommitted
    /\ ret.result = Some("") /\ ret.error = Some(EmptyDict)
    /\ ret.sealed # {}
    /\ \A i \in ret.sealed : task_states[i].result = Some("")
    /\ ret.current_state \notin DOMAIN ResultsOf(task_data, ret.task_id)
    /\ ~tasks[ret.task_id][1].has_error

\* C27: a transition on an existing task is never refused for the state
\* asked for or for the task's progress: update_task_state returns False
\* only for a task_id without a Task row, and a write transaction that
\* meets no storage error commits for every new_state, result and error,
\* whether or not new_state is in next_states, whether or not the task is
\* complete, and however many transitions the task has made; retry_count
\* stays 0 and max_retries stays as created.
C27_NeverRejected ==
    /\ \A t \in TaskIds :
          tasks[t] # NULL => /\ tasks[t][1].retry_count = 0
                             /\ tasks[t][1].max_retries = MaxRetries
    /\ (ret.op = "transition" /\ ret.outcome = "returned" /\ ~ret.value) =>
          tasks[ret.task_id] = NULL
    /\ \A p \in Procs :
          pc[p] = "timed" =>
             \A s \in States, r \in Results, e \in Errors :
                LET o == TransitionCall(local[p] @@ [new_state |-> s,
                                                     result |-> r,
                                                     error |-> e], 0)
                IN /\ o.ret.outcome = "returned" /\ o.ret.value
                   /\ o.db.tasks[local[p].task_id][1].current_state = s

\* C27 witness: a task whose open State Event was in the completion state
\* (so is_complete was true) has left it for a state that is not in
\* next_states, by a transition that brought the number of its transitions
\* above max_retries; retry_count is still 0.
C27_LeftCompletionBeyondRetries ==
    /\ LastCommitted
    /\ ret.current_state = tasks[ret.task_id][1].completion_state
    /\ ret.sealed # {}
    /\ \A i \in DOMAIN NextStates : NextStates[i] # ret.new_state
    /\ ~tasks[ret.task_id][1].is_complete
    /\ Cardinality(RowsOf(task_states, ret.task_id)) - 1
          > tasks[ret.task_id][1].max_retries
    /\ tasks[ret.task_id][1].retry_count = 0

\* the states a decision gives to the proposal and to its error
ProposalStateAfter(op) ==
    IF op = "approve_fix" THEN "approved_for_fix" ELSE "rejected"
ErrorStateAfter(op) ==
    IF op = "approve_fix" THEN "approved_for_fix" ELSE "needs_processing"

\* C29: in the DAG error store every decision is all-or-nothing.
\* add_fix_proposal on an existing error, when no statement fails, returns
\* the id of a new proposal in state awaiting_approval and sets the error's
\* state to awaiting_approval; approve_fix (reject_fix) that returns True
\* has appended one approval record with approved = true (false) and set
\* the proposal to approved_for_fix (rejected) and its error to
\* approved_for_fix (needs_processing), changing nothing else;
\* add_fix_proposal on an unknown error returns -1 and approve_fix and
\* reject_fix on an unknown proposal return False; and every call that
\* returns -1 or False has inserted and updated no row.
C29_DecisionsAtomic ==
    [][/\ \A e \in DOMAIN dag_errors :
             AddFixProposalCall(e, 0).ret.value = Len(fix_proposals) + 1
       /\ ret'.op = "add_fix_proposal" =>
             LET e == ret'.error_id
             IN /\ e \notin DOMAIN dag_errors => ret'.value = 0 - 1
                /\ IF ret'.value = 0 - 1
                   THEN UNCHANGED dagvars
                   ELSE /\ e \in DOMAIN dag_errors
                        /\ ret'.value = Len(fix_proposals) + 1
                        /\ fix_proposals' =
                              Append(fix_proposals,
                                     [error_id |-> e,
                                      state |-> "awaiting_approval",
                                      created_at |-> clock])
                        /\ dag_errors' =
                              [dag_errors EXCEPT
                                  ![e].state = "awaiting_approval"]
                        /\ fix_approvals' = fix_approvals
       /\ ret'.op \in {"approve_fix", "reject_fix"} =>
             LET i == ret'.proposal_id
             IN /\ i \notin DOMAIN fix_proposals => ~ret'.value
                /\ IF ~ret'.value
                   THEN UNCHANGED dagvars
                   ELSE /\ i \in DOMAIN fix_proposals
                        /\ Len(fix_approvals') = Len(fix_approvals) + 1
                        /\ SubSeq(fix_approvals', 1, Len(fix_approvals))
                              = fix_approvals
                        /\ fix_approvals'[Len(fix_approvals')].proposal_id = i
                        /\ fix_approvals'[Len(fix_approvals')].approved
                              = (ret'.op = "approve_fix")
                        /\ fix_proposals' =
                              [fix_proposals EXCEPT
                                  ![i].state = ProposalStateAfter(ret'.op)]
                        /\ dag_errors' =
                              [dag_errors EXCEPT
                                  ![fix_proposals[i].error_id].state =
                                      ErrorStateAfter(ret'.op)]]_vars

\* C29 witness: reject_fix has returned True on a proposal of an error
\* that has another proposal; the last approval record is a rejection of
\* that proposal, the proposal is rejected and the error is back in
\* needs_processing.
C29_Rejected ==
    /\ ret.op = "reject_fix" /\ ret.value
    /\ fix_approvals # << >>
    /\ fix_approvals[Len(fix_approvals)].proposal_id = ret.proposal_id
    /\ ~fix_approvals[Len(fix_approvals)].approved
    /\ fix_proposals[ret.proposal_id].state = "rejected"
    /\ dag_errors[fix_proposals[ret.proposal_id].error_id].state
          = "needs_processing"
    /\ \E j \in DOMAIN fix_proposals :
          /\ j # ret.proposal_id
          /\ fix_proposals[j].error_id
                = fix_proposals[ret.proposal_id].error_id

\* C30: a decision is never final. Whatever the state of an existing
\* proposal, approve_fix and reject_fix that meet no storage error return
\* True and set the proposal and its error to the states of that decision;
\* and right after a decision the error holds the state of that decision,
\* whatever the states of its other proposals.
C30_DecisionNotFinal ==
    /\ \A i \in DOMAIN fix_proposals, r \in Reviewers :
          LET e == fix_proposals[i].error_id
              a == ApproveFixCall(i, r, 0)
              j == RejectFixCall(i, r, 0)
          IN /\ a.ret.value
             /\ a.db.fix_proposals[i].state = "approved_for_fix"
             /\ a.db.dag_errors[e].state = "approved_for_fix"
             /\ j.ret.value
             /\ j.db.fix_proposals[i].state = "rejected"
             /\ j.db.dag_errors[e].state = "needs_processing"
    /\ (ret.op \in {"approve_fix", "reject_fix"} /\ ret.value) =>
          /\ fix_proposals[ret.proposal_id].state = ProposalStateAfter(ret.op)
          /\ dag_errors[fix_proposals[ret.proposal_id].error_id].state
                = ErrorStateAfter(ret.op)

\* C30 witness: a proposal that was rejected and later approved is in
\* approved_for_fix while its error is in needs_processing, because
\* another proposal of the same error has been rejected since.
C30_ErrorBehindApprovedProposal ==
    /\ ret.op = "reject_fix" /\ ret.value
    /\ \E i \in DOMAIN fix_proposals :
          /\ i # ret.proposal_id
          /\ fix_proposals[i].error_id
                = fix_proposals[ret.proposal_id].error_id
          /\ fix_proposals[i].state = "approved_for_fix"
          /\ dag_errors[fix_proposals[i].error_id].state = "needs_processing"
          /\ \E k, l \in DOMAIN fix_approvals :
                /\ k < l
                /\ fix_approvals[k].proposal_id = i
                /\ ~fix_approvals[k].approved
                /\ fix_approvals[l].proposal_id = i
                /\ fix_approvals[l].approved
====
